---- MODULE Spec2Model ----
(***************************************************************************)
(* Model of the default AVM2 object implementation,                        *)
(* core/src/avm2/script_object.rs: ScriptObject (a GcCell handle) and      *)
(* ScriptObjectData { values, slots, proto }.                              *)
(*                                                                         *)
(* The heap is a sequence of ScriptObjectData records; an object handle is *)
(* the index of its allocation.  Property (crate::avm2::property) is not   *)
(* part of script_object.rs; its constructors and get / set /              *)
(* install_virtual_* are modelled from the specification's data model.     *)
(***************************************************************************)
EXTENDS Integers, Sequences, FiniteSets, TLC

\* ------------------------------------------------------------------------
\* Bounds and input sets
\* ------------------------------------------------------------------------
MaxObjs == 2
MaxSteps == 3
MaxSlots == 2

Names == {"n1", "n2"}
Values == {"v1", "v2"}
Executables == {"c1", "c2"}
FunctionObjects == {"f1", "f2"}

Undefined == "undefined"
None == "None"
NoObject == 0

VARIABLES heap, last, born, touched, steps, borrow

vars == <<heap, last, born, touched, steps, borrow>>

Objects == 1..Len(heap)

\* Handles: ScriptObject is a Copy wrapper around the pointer to one
\* allocation, so every allocation can be reached through several handles.
\* A handle is <<allocation, copy number>>.
Handles == Objects \X {1, 2}

\* The allocation a handle refers to (self.0).
Deref(h) == h[1]
SlotIds == 0..MaxSlots

\* ------------------------------------------------------------------------
\* Property
\* ------------------------------------------------------------------------
Absent == [kind |-> "Absent", value |-> None, get |-> None, set |-> None]

new_dynamic_property(value) ==
    [kind |-> "Dynamic", value |-> value, get |-> None, set |-> None]

new_method(function) ==
    [kind |-> "Method", value |-> function, get |-> None, set |-> None]

new_virtual ==
    [kind |-> "Virtual", value |-> None, get |-> None, set |-> None]

\* An accessor invocation: invoke(receiver, args).
NoCall == [fn |-> None, this |-> NoObject, args |-> <<>>]
Call(fn, this, args) == [fn |-> fn, this |-> this, args |-> args]

\* Result of one operation of the core.
Ok(val, call) == [ok |-> TRUE, err |-> None, val |-> val, call |-> call]
Err(e) == [ok |-> FALSE, err |-> e, val |-> None, call |-> NoCall]

Deferred == "ResultOf"

\* Property::get: [prop, res]
property_get(prop, this) ==
    CASE prop.kind = "Dynamic" -> Ok(prop.value, NoCall)
      [] prop.kind = "Method" -> Ok(prop.value, NoCall)
      [] OTHER -> IF prop.get # None
                  THEN Ok(Deferred, Call(prop.get, this, <<>>))
                  ELSE Err("MissingAccessor")

\* Property::set: [prop, res]
property_set(prop, this, value) ==
    CASE prop.kind = "Dynamic" ->
            [prop |-> new_dynamic_property(value), res |-> Ok(None, NoCall)]
      [] prop.kind = "Method" ->
            [prop |-> new_dynamic_property(value), res |-> Ok(None, NoCall)]
      [] OTHER ->
            IF prop.set # None
            THEN [prop |-> prop, res |-> Ok(None, Call(prop.set, this, <<value>>))]
            ELSE [prop |-> prop, res |-> Err("MissingAccessor")]

install_virtual_getter(prop, function) ==
    IF prop.kind = "Virtual"
    THEN [prop |-> [prop EXCEPT !.get = function], res |-> Ok(None, NoCall)]
    ELSE [prop |-> prop, res |-> Err("NotVirtual")]

install_virtual_setter(prop, function) ==
    IF prop.kind = "Virtual"
    THEN [prop |-> [prop EXCEPT !.set = function], res |-> Ok(None, NoCall)]
    ELSE [prop |-> prop, res |-> Err("NotVirtual")]

\* ------------------------------------------------------------------------
\* ScriptObjectData
\* ------------------------------------------------------------------------
\* base_new that drops the prototype.
base_new_noproto(proto) ==
    [values |-> [n \in Names |-> Absent], slots |-> <<>>, proto |-> NoObject]

\* base_new that allocates one slot.
base_new_slot(proto) ==
    [values |-> [n \in Names |-> Absent], slots |-> <<Undefined>>,
     proto |-> proto]

base_new(proto) ==
    [values |-> [n \in Names |-> Absent], slots |-> <<>>, proto |-> proto]

has_property(d, name) == d.values[name].kind # "Absent"

\* get_property that falls back to the prototype's registry.
get_property_walk(d, name, this) ==
    IF d.values[name].kind # "Absent"
    THEN property_get(d.values[name], this)
    ELSE IF d.proto # NoObject /\ heap[d.proto].values[name].kind # "Absent"
         THEN property_get(heap[d.proto].values[name], this)
         ELSE Ok(Undefined, NoCall)

get_property(d, name, this) ==
    IF d.values[name].kind # "Absent"
    THEN property_get(d.values[name], this)
    ELSE Ok(Undefined, NoCall)

\* set_property that always stores the value, whatever the entry is.
set_property_store(d, name, value, this) ==
    [data |-> [d EXCEPT !.values[name] = new_dynamic_property(value)],
     res |-> Ok(None, NoCall)]

\* set_property that runs an inherited setter instead of creating the entry.
set_property_walk(d, name, value, this) ==
    IF d.values[name].kind # "Absent"
    THEN LET r == property_set(d.values[name], this, value)
         IN  [data |-> [d EXCEPT !.values[name] = r.prop], res |-> r.res]
    ELSE IF d.proto # NoObject /\ heap[d.proto].values[name].set # None
         THEN [data |-> d,
               res |-> Ok(None, Call(heap[d.proto].values[name].set, this, <<value>>))]
         ELSE [data |-> [d EXCEPT !.values[name] = new_dynamic_property(value)],
               res |-> Ok(None, NoCall)]

\* set_property that drops the error of Property::set and stores the value.
set_property_vivify(d, name, value, this) ==
    IF d.values[name].kind # "Absent"
    THEN LET r == property_set(d.values[name], this, value)
         IN  IF r.res.ok
             THEN [data |-> [d EXCEPT !.values[name] = r.prop], res |-> r.res]
             ELSE [data |-> [d EXCEPT !.values[name] = new_dynamic_property(value)],
                   res |-> Ok(None, NoCall)]
    ELSE [data |-> [d EXCEPT !.values[name] = new_dynamic_property(value)],
          res |-> Ok(None, NoCall)]

\* set_property that refuses to overwrite a method.
set_property_sealed(d, name, value, this) ==
    IF d.values[name].kind = "Method"
    THEN [data |-> d, res |-> Err("ReadOnly")]
    ELSE IF d.values[name].kind # "Absent"
    THEN LET r == property_set(d.values[name], this, value)
         IN  [data |-> [d EXCEPT !.values[name] = r.prop], res |-> r.res]
    ELSE [data |-> [d EXCEPT !.values[name] = new_dynamic_property(value)],
          res |-> Ok(None, NoCall)]

set_property(d, name, value, this) ==
    IF d.values[name].kind # "Absent"
    THEN LET r == property_set(d.values[name], this, value)
         IN  [data |-> [d EXCEPT !.values[name] = r.prop], res |-> r.res]
    ELSE [data |-> [d EXCEPT !.values[name] = new_dynamic_property(value)],
          res |-> Ok(None, NoCall)]

get_slot(d, id) ==
    IF id < Len(d.slots)
    THEN Ok(d.slots[id + 1], NoCall)
    ELSE Err("OutOfBounds")

\* set_slot that takes the index as one-based.
set_slot_shifted(d, id, value) ==
    IF id < Len(d.slots)
    THEN [data |-> [d EXCEPT !.slots[IF id = 0 THEN 1 ELSE id] = value],
          res |-> Ok(None, NoCall)]
    ELSE [data |-> d, res |-> Err("OutOfBounds")]

\* set_slot that grows the vector up to the index (Vec::resize, then store).
set_slot_extend(d, id, value) ==
    IF id < Len(d.slots)
    THEN [data |-> [d EXCEPT !.slots[id + 1] = value], res |-> Ok(None, NoCall)]
    ELSE [data |-> [d EXCEPT !.slots =
                       [i \in 1..(id + 1) |->
                           IF i <= Len(d.slots) THEN d.slots[i]
                           ELSE IF i = id + 1 THEN value ELSE Undefined]],
          res |-> Ok(None, NoCall)]

set_slot(d, id, value) ==
    IF id < Len(d.slots)
    THEN [data |-> [d EXCEPT !.slots[id + 1] = value], res |-> Ok(None, NoCall)]
    ELSE [data |-> d, res |-> Err("OutOfBounds")]

\* install_method that keeps an entry that is already there.
install_method_keep(d, name, function) ==
    IF d.values[name].kind = "Absent"
    THEN [data |-> [d EXCEPT !.values[name] = new_method(function)],
          res |-> Ok(None, NoCall)]
    ELSE [data |-> d, res |-> Ok(None, NoCall)]

install_method(d, name, function) ==
    [data |-> [d EXCEPT !.values[name] = new_method(function)],
     res |-> Ok(None, NoCall)]

\* install_getter that inserts a fresh Virtual over an existing entry.
install_getter_clobber(d, name, function) ==
    LET d1 == [d EXCEPT !.values[name] = new_virtual]
        r == install_virtual_getter(d1.values[name], function)
    IN  [data |-> [d1 EXCEPT !.values[name] = r.prop], res |-> r.res]

\* install_getter that removes the entry when the install fails.
install_getter_rollback(d, name, function) ==
    LET d1 == IF d.values[name].kind = "Absent"
              THEN [d EXCEPT !.values[name] = new_virtual]
              ELSE d
        r == install_virtual_getter(d1.values[name], function)
    IN  IF r.res.ok
        THEN [data |-> [d1 EXCEPT !.values[name] = r.prop], res |-> r.res]
        ELSE [data |-> [d1 EXCEPT !.values[name] = Absent], res |-> r.res]

install_getter(d, name, function) ==
    LET d1 == IF d.values[name].kind = "Absent"
              THEN [d EXCEPT !.values[name] = new_virtual]
              ELSE d
        r == install_virtual_getter(d1.values[name], function)
    IN  [data |-> [d1 EXCEPT !.values[name] = r.prop], res |-> r.res]

\* install_setter that inserts a fresh Virtual over an existing entry.
install_setter_clobber(d, name, function) ==
    LET d1 == [d EXCEPT !.values[name] = new_virtual]
        r == install_virtual_setter(d1.values[name], function)
    IN  [data |-> [d1 EXCEPT !.values[name] = r.prop], res |-> r.res]

install_setter(d, name, function) ==
    LET d1 == IF d.values[name].kind = "Absent"
              THEN [d EXCEPT !.values[name] = new_virtual]
              ELSE d
        r == install_virtual_setter(d1.values[name], function)
    IN  [data |-> [d1 EXCEPT !.values[name] = r.prop], res |-> r.res]

\* install_dynamic_property that keeps an existing entry (entry().or_insert).
install_dynamic_property_keep(d, name, value) ==
    [data |-> IF d.values[name].kind = "Absent"
              THEN [d EXCEPT !.values[name] = new_dynamic_property(value)]
              ELSE d,
     res |-> Ok(None, NoCall)]

install_dynamic_property(d, name, value) ==
    [data |-> [d EXCEPT !.values[name] = new_dynamic_property(value)],
     res |-> Ok(None, NoCall)]

\* ------------------------------------------------------------------------
\* Bookkeeping of the model
\* ------------------------------------------------------------------------
\* What the most recent call returned to its caller: the operation, its
\* result, the accessor invocation it issued and the object it allocated.
Op(op, res, ret) ==
    [op |-> op, ok |-> res.ok, err |-> res.err, val |-> res.val,
     call |-> res.call, ret |-> ret, was |-> None]

\* The record of a call on a named entry; was is the kind of the entry the
\* call found ("Absent" when the name was absent).
OpOn(op, prop, res, ret) == [Op(op, res, ret) EXCEPT !.was = prop.kind]

NoOp == Op("init", Ok(None, NoCall), NoObject)

\* The borrow of a GcCell held by a call whose accessor is executing: the
\* cell and "read" (GcCell::read) or "write" (GcCell::write); Free when no
\* call is in progress.
Free == [cell |-> NoObject, mode |-> "none"]

\* GcCell::read panics when the cell is mutably borrowed, GcCell::write when
\* it is borrowed at all.
CanRead(o) == ~(borrow.cell = o /\ borrow.mode = "write")
CanWrite(o) == borrow.cell # o

Panicked == last.err = "AlreadyBorrowed"

Panic(op) ==
    /\ last' = Op(op, Err("AlreadyBorrowed"), NoObject)
    /\ UNCHANGED <<heap, born, touched>>

\* Number of registry entries of the whole heap.
PropCount(h) ==
    Cardinality({on \in (1..Len(h)) \X Names : has_property(h[on[1]], on[2])})

\* One more call of the core; runs are explored up to MaxSteps calls.
Tick == steps < MaxSteps /\ steps' = steps + 1 /\ ~Panicked

\* ------------------------------------------------------------------------
\* Initial states
\* ------------------------------------------------------------------------
\* One root object made by ScriptObject::bare_object.
Init ==
    /\ heap = <<base_new(NoObject)>>
    /\ last = NoOp
    /\ born = <<[len |-> 0, proto |-> NoObject]>>
    /\ touched = {}
    /\ steps = 0
    /\ borrow = Free

\* One root object whose slot vector was laid out by the class layout.
SlotInit ==
    /\ \E k \in 0..MaxSlots : \E sl \in [1..k -> Values] :
          /\ heap = <<[base_new(NoObject) EXCEPT !.slots = sl]>>
          /\ born = <<[len |-> k, proto |-> NoObject]>>
    /\ last = NoOp
    /\ touched = {}
    /\ steps = 0
    /\ borrow = Free

\* ------------------------------------------------------------------------
\* ScriptObject (impl TObject): one action per operation
\* ------------------------------------------------------------------------
GetProperty(o, n) ==
    /\ Tick
    /\ IF CanRead(o)
       THEN /\ last' = Op("get_property", get_property(heap[o], n, o), NoObject)
            /\ UNCHANGED <<heap, born, touched>>
       ELSE Panic("get_property")
    /\ UNCHANGED borrow

\* set_property that runs on a private copy of the storage instead of the
\* shared cell, so that the write is seen through no handle.
SetProperty_private(o, n, v) ==
    /\ Tick
    /\ IF CanWrite(o)
       THEN /\ LET r == set_property(heap[o], n, v, o)
               IN  last' = OpOn("set_property", heap[o].values[n], r.res, NoObject)
            /\ touched' = touched \cup {<<o, n>>}
            /\ UNCHANGED <<heap, born>>
       ELSE Panic("set_property")
    /\ UNCHANGED borrow

SetProperty(o, n, v) ==
    /\ Tick
    /\ IF CanWrite(o)
       THEN /\ LET r == set_property(heap[o], n, v, o)
               IN  /\ heap' = [heap EXCEPT ![o] = r.data]
                   /\ last' = OpOn("set_property", heap[o].values[n], r.res, NoObject)
            /\ touched' = touched \cup {<<o, n>>}
            /\ UNCHANGED born
       ELSE Panic("set_property")
    /\ UNCHANGED borrow

GetSlot(o, id) ==
    /\ Tick
    /\ IF CanRead(o)
       THEN /\ last' = Op("get_slot", get_slot(heap[o], id), NoObject)
            /\ UNCHANGED <<heap, born, touched>>
       ELSE Panic("get_slot")
    /\ UNCHANGED borrow

SetSlot(o, id, v) ==
    /\ Tick
    /\ IF CanWrite(o)
       THEN /\ LET r == set_slot(heap[o], id, v)
               IN  /\ heap' = [heap EXCEPT ![o] = r.data]
                   /\ last' = Op("set_slot", r.res, NoObject)
            /\ UNCHANGED <<born, touched>>
       ELSE Panic("set_slot")
    /\ UNCHANGED borrow

HasProperty(o, n) ==
    /\ Tick
    /\ IF CanRead(o)
       THEN /\ last' = Op("has_property",
                          Ok(IF has_property(heap[o], n) THEN "true" ELSE "false",
                             NoCall),
                          NoObject)
            /\ UNCHANGED <<heap, born, touched>>
       ELSE Panic("has_property")
    /\ UNCHANGED borrow

Proto(o) ==
    /\ Tick
    /\ IF CanRead(o)
       THEN /\ last' = Op("proto", Ok(None, NoCall), heap[o].proto)
            /\ UNCHANGED <<heap, born, touched>>
       ELSE Panic("proto")
    /\ UNCHANGED borrow

Alloc(op, proto) ==
    /\ Tick
    /\ Len(heap) < MaxObjs
    /\ heap' = Append(heap, base_new(proto))
    /\ born' = Append(born, [len |-> 0, proto |-> proto])
    /\ last' = Op(op, Ok(None, NoCall), Len(heap) + 1)
    /\ UNCHANGED <<touched, borrow>>

\* construct that copies the storage of the object it is invoked on.
Construct_clone(o, args) ==
    /\ Tick
    /\ Len(heap) < MaxObjs
    /\ heap' = Append(heap, [heap[o] EXCEPT !.proto = o])
    /\ born' = Append(born, [len |-> Len(heap[o].slots), proto |-> o])
    /\ last' = Op("construct", Ok(None, NoCall), Len(heap) + 1)
    /\ UNCHANGED <<touched, borrow>>

Construct(o, args) == Alloc("construct", o)

BareObject == Alloc("bare_object", NoObject)

\* object(proto) that forgets the prototype.
ObjectWithProto_bare(p) == Alloc("object", NoObject)

ObjectWithProto(p) == Alloc("object", p)

InstallMethod(o, n, f) ==
    /\ Tick
    /\ IF CanWrite(o)
       THEN /\ LET r == install_method(heap[o], n, f)
               IN  /\ heap' = [heap EXCEPT ![o] = r.data]
                   /\ last' = OpOn("install_method", heap[o].values[n], r.res, NoObject)
            /\ touched' = touched \cup {<<o, n>>}
            /\ UNCHANGED born
       ELSE Panic("install_method")
    /\ UNCHANGED borrow

InstallGetter(o, n, f) ==
    /\ Tick
    /\ IF CanWrite(o)
       THEN /\ LET r == install_getter(heap[o], n, f)
               IN  /\ heap' = [heap EXCEPT ![o] = r.data]
                   /\ last' = OpOn("install_getter", heap[o].values[n], r.res, NoObject)
            /\ touched' = touched \cup {<<o, n>>}
            /\ UNCHANGED born
       ELSE Panic("install_getter")
    /\ UNCHANGED borrow

InstallSetter(o, n, f) ==
    /\ Tick
    /\ IF CanWrite(o)
       THEN /\ LET r == install_setter(heap[o], n, f)
               IN  /\ heap' = [heap EXCEPT ![o] = r.data]
                   /\ last' = OpOn("install_setter", heap[o].values[n], r.res, NoObject)
            /\ touched' = touched \cup {<<o, n>>}
            /\ UNCHANGED born
       ELSE Panic("install_setter")
    /\ UNCHANGED borrow

InstallDynamicProperty(o, n, v) ==
    /\ Tick
    /\ IF CanWrite(o)
       THEN /\ LET r == install_dynamic_property(heap[o], n, v)
               IN  /\ heap' = [heap EXCEPT ![o] = r.data]
                   /\ last' = OpOn("install_dynamic_property", heap[o].values[n], r.res, NoObject)
            /\ touched' = touched \cup {<<o, n>>}
            /\ UNCHANGED born
       ELSE Panic("install_dynamic_property")
    /\ UNCHANGED borrow

\* get_property on a Virtual entry whose getter starts executing inside the
\* call: self.0.read() is held while prop.get runs.
EnterGetter(o, n) ==
    /\ Tick
    /\ borrow = Free
    /\ heap[o].values[n].kind = "Virtual"
    /\ heap[o].values[n].get # None
    /\ borrow' = [cell |-> o, mode |-> "read"]
    /\ last' = Op("getter", Ok(None, Call(heap[o].values[n].get, o, <<>>)), NoObject)
    /\ UNCHANGED <<heap, born, touched>>

\* set_property on a Virtual entry whose setter starts executing inside the
\* call: self.0.write(gc_context) is held while prop.set runs.
EnterSetter(o, n, v) ==
    /\ Tick
    /\ borrow = Free
    /\ heap[o].values[n].kind = "Virtual"
    /\ heap[o].values[n].set # None
    /\ borrow' = [cell |-> o, mode |-> "write"]
    /\ last' = Op("setter", Ok(None, Call(heap[o].values[n].set, o, <<v>>)), NoObject)
    /\ touched' = touched \cup {<<o, n>>}
    /\ UNCHANGED <<heap, born>>

\* The accessor returns and the call that invoked it drops its borrow.
ReturnAccessor ==
    /\ borrow # Free
    /\ ~Panicked
    /\ borrow' = Free
    /\ last' = Op("return", Ok(None, NoCall), NoObject)
    /\ UNCHANGED <<heap, born, touched, steps>>

\* Argument lists of construct.
ArgLists == {<<>>, <<"v1">>}

Step(NS, ES, FS) ==
    \/ \E o \in Objects, n \in NS : GetProperty(o, n)
    \/ \E o \in Objects, n \in NS, v \in Values : SetProperty(o, n, v)
    \/ \E o \in Objects, id \in SlotIds : GetSlot(o, id)
    \/ \E o \in Objects, id \in SlotIds, v \in Values : SetSlot(o, id, v)
    \/ \E o \in Objects, n \in NS : HasProperty(o, n)
    \/ \E o \in Objects : Proto(o)
    \/ \E o \in Objects, args \in ArgLists : Construct(o, args)
    \/ BareObject
    \/ \E p \in Objects : ObjectWithProto(p)
    \/ \E o \in Objects, n \in NS, f \in FS : InstallMethod(o, n, f)
    \/ \E o \in Objects, n \in NS, f \in ES : InstallGetter(o, n, f)
    \/ \E o \in Objects, n \in NS, f \in ES : InstallSetter(o, n, f)
    \/ \E o \in Objects, n \in NS, v \in Values : InstallDynamicProperty(o, n, v)

Next == Step(Names, Executables, FunctionObjects)

\* The slot-centred runs exercise the named operations on one name only.
SlotNext == Step({"n1"}, {"c1"}, {"f1"})

\* Calls of the core, also from accessor code that executes inside a call.
ReentryNext ==
    \/ Next
    \/ \E o \in Objects, n \in Names : EnterGetter(o, n)
    \/ \E o \in Objects, n \in Names, v \in Values : EnterSetter(o, n, v)
    \/ ReturnAccessor

Spec == Init /\ [][Next]_vars

ReentrySpec == Init /\ [][ReentryNext]_vars

SlotSpec == SlotInit /\ [][SlotNext]_vars

TypeOK ==
    /\ Len(heap) \in 1..MaxObjs
    /\ Len(born) = Len(heap)
    /\ \A o \in Objects : heap[o].proto \in 0..Len(heap)
    /\ steps <= MaxSteps
    /\ borrow.cell \in 0..Len(heap)

\* ------------------------------------------------------------------------
\* Properties
\* ------------------------------------------------------------------------
Entry(o, n) == heap[o].values[n]

Virtual(g, s) == [kind |-> "Virtual", value |-> None, get |-> g, set |-> s]

IsFull(p) == p.kind = "Virtual" /\ p.get # None /\ p.set # None
IsGetterOnly(p) == p.kind = "Virtual" /\ p.get # None /\ p.set = None
IsSetterOnly(p) == p.kind = "Virtual" /\ p.get = None /\ p.set # None

\* The accessor state of a registry entry (state machine of install_getter /
\* install_setter); "Other" for Dynamic and Method entries.
AccState(p) ==
    CASE p.kind = "Absent" -> "Absent"
      [] IsFull(p) -> "Full"
      [] IsGetterOnly(p) -> "GetterOnly"
      [] IsSetterOnly(p) -> "SetterOnly"
      [] p.kind = "Virtual" -> "Empty"
      [] OTHER -> "Other"

Pairs == Objects \X Names

\* C1: on a name with no registry entry, install_getter then install_setter
\* and install_setter then install_getter both succeed and end in the same
\* object state, whose entry for the name is Virtual{getter = g, setter = s}.
C1_InstallOrderCommutes ==
    \A o \in Objects, n \in Names, g \in Executables, s \in Executables :
        ~has_property(heap[o], n) =>
            LET d == heap[o]
                g1 == install_getter(d, n, g)
                gs == install_setter(g1.data, n, s)
                s1 == install_setter(d, n, s)
                sg == install_getter(s1.data, n, g)
            IN  /\ g1.res.ok /\ gs.res.ok /\ s1.res.ok /\ sg.res.ok
                /\ gs.data = sg.data
                /\ gs.data.values[n] = Virtual(g, s)
                /\ gs.data = [d EXCEPT !.values[n] = Virtual(g, s)]

\* A Full accessor is the only Virtual entry of the heap and the last call was
\* a successful install_getter: the getter arrived on that entry.
C1_Witness ==
    /\ last.op = "install_getter" /\ last.ok
    /\ \E on \in Pairs :
          /\ IsFull(Entry(on[1], on[2]))
          /\ \A pm \in Pairs \ {on} : Entry(pm[1], pm[2]).kind # "Virtual"

\* The step install_getter / install_setter on name n of object o takes the
\* accessor state along one of the edges GS (install_getter) / SS
\* (install_setter), changes its own half only and leaves the other half as
\* it was.
AccessorStep(GS, SS) ==
    \A o \in Objects, n \in Names, f \in Executables :
        LET p == heap[o].values[n]
            q == heap'[o].values[n]
        IN  p.kind \in {"Absent", "Virtual"} =>
              /\ InstallGetter(o, n, f) =>
                    /\ last'.ok
                    /\ q = Virtual(f, p.set)
                    /\ <<AccState(p), AccState(q)>> \in GS
              /\ InstallSetter(o, n, f) =>
                    /\ last'.ok
                    /\ q = Virtual(p.get, f)
                    /\ <<AccState(p), AccState(q)>> \in SS

\* C2 as stated: the accessor state moves only along Absent->GetterOnly,
\* Absent->SetterOnly, GetterOnly->Full, SetterOnly->Full, Full->Full, each
\* install changing its own half only.
C2_FiveTransitions ==
    [][last'.op \in {"install_getter", "install_setter"} =>
         AccessorStep({<<"Absent", "GetterOnly">>, <<"SetterOnly", "Full">>,
                       <<"Full", "Full">>},
                      {<<"Absent", "SetterOnly">>, <<"GetterOnly", "Full">>,
                       <<"Full", "Full">>})
      ]_vars

\* C2: install_getter / install_setter move the accessor state of a name only
\* along Absent->GetterOnly, Absent->SetterOnly, GetterOnly->Full,
\* SetterOnly->Full, Full->Full, GetterOnly->GetterOnly (install_getter
\* again) and SetterOnly->SetterOnly (install_setter again); each changes
\* its own half only and leaves the other half as it was, and no present
\* half becomes absent.
C2_AccessorTransitions ==
    [][last'.op \in {"install_getter", "install_setter"} =>
         AccessorStep({<<"Absent", "GetterOnly">>, <<"GetterOnly", "GetterOnly">>,
                       <<"SetterOnly", "Full">>, <<"Full", "Full">>},
                      {<<"Absent", "SetterOnly">>, <<"SetterOnly", "SetterOnly">>,
                       <<"GetterOnly", "Full">>, <<"Full", "Full">>})
      ]_vars

\* A Full accessor whose halves hold different callables, right after a
\* successful install_setter.
C2_Witness ==
    /\ last.op = "install_setter" /\ last.ok
    /\ \E on \in Pairs :
          /\ IsFull(Entry(on[1], on[2]))
          /\ Entry(on[1], on[2]).get # Entry(on[1], on[2]).set
          /\ \A pm \in Pairs \ {on} : Entry(pm[1], pm[2]).kind # "Virtual"

\* The halves of a Virtual entry survive the step, the getter (setter) half
\* changing only in a step that is install_getter (install_setter) on it.
HalvesPersist(o, n) ==
    LET p == heap[o].values[n]
        q == heap'[o].values[n]
    IN  p.kind = "Virtual" =>
          /\ q.kind = "Virtual"
          /\ p.get # None =>
                /\ q.get # None
                /\ q.get = p.get \/ \E f \in Executables : InstallGetter(o, n, f)
          /\ p.set # None =>
                /\ q.set # None
                /\ q.set = p.set \/ \E f \in Executables : InstallSetter(o, n, f)

\* C3 as stated: no operation at all (install_method and
\* install_dynamic_property included) downgrades a Virtual entry or removes
\* an installed half.
C3_NeverDowngraded ==
    [][\A o \in Objects, n \in Names : HalvesPersist(o, n)]_vars

\* C3: a Virtual entry and its installed halves survive every operation
\* other than install_method / install_dynamic_property on that very name of
\* that object; a half changes only by its own install operation.
C3_DowngradedOnlyByReplace ==
    [][\A o \in Objects, n \in Names :
         (/\ last'.op = "install_method" =>
                \A f \in FunctionObjects : ~InstallMethod(o, n, f)
          /\ last'.op = "install_dynamic_property" =>
                \A v \in Values : ~InstallDynamicProperty(o, n, v))
         => HalvesPersist(o, n)]_vars

\* install_method has just put a Method next to a Virtual entry of the same
\* object, which kept its getter.
C3_Witness ==
    /\ last.op = "install_method"
    /\ \E o \in Objects, n \in Names, m \in Names :
          /\ n # m
          /\ Entry(o, n).kind = "Virtual" /\ Entry(o, n).get # None
          /\ Entry(o, m).kind = "Method"

\* C4: for a name never installed or set on the object itself, has_property
\* is false and get_property returns Undefined without error and without
\* invoking anything, whatever the prototype holds.
C4_NeverInstalledIsUndefined ==
    \A o \in Objects, n \in Names :
        <<o, n>> \notin touched =>
            /\ ~has_property(heap[o], n)
            /\ get_property(heap[o], n, o) = Ok(Undefined, NoCall)

\* get_property has just returned Undefined although the prototype of an
\* object has an entry for a name the object itself never received, and no
\* other entry exists in the heap.
C4_Witness ==
    /\ last.op = "get_property" /\ last.ok /\ last.val = Undefined
    /\ \E o \in Objects, n \in Names :
          /\ <<o, n>> \notin touched
          /\ heap[o].proto # NoObject
          /\ has_property(heap[heap[o].proto], n)
          /\ PropCount(heap) = 1

\* C5: install_dynamic_property always succeeds and makes the entry a Dynamic
\* holding the value, whatever the name held before; right afterwards
\* has_property is true and get_property returns the value.
C5_InstallDynamicReplaces ==
    [][last'.op \in {"install_dynamic_property"} =>
      (\A o \in Objects, n \in Names, v \in Values :
         InstallDynamicProperty(o, n, v) =>
            /\ last'.ok
            /\ heap'[o].values[n] = new_dynamic_property(v)
            /\ has_property(heap'[o], n)
            /\ get_property(heap'[o], n, o) = Ok(v, NoCall))
      ]_vars

\* install_dynamic_property has just returned and the heap's only entry is a
\* Dynamic one.
C5_Witness ==
    /\ last.op = "install_dynamic_property" /\ last.ok
    /\ PropCount(heap) = 1
    /\ \E on \in Pairs : Entry(on[1], on[2]).kind = "Dynamic"

\* Object o is as before the step except for the registry entry of name n.
OnlyEntryChanged(o, n) ==
    /\ \A p \in Objects \ {o} : heap'[p] = heap[p]
    /\ Len(heap') = Len(heap)
    /\ heap'[o].slots = heap[o].slots
    /\ heap'[o].proto = heap[o].proto
    /\ \A m \in Names \ {n} : heap'[o].values[m] = heap[o].values[m]

\* C6: set_property on a name without own entry succeeds, invokes no
\* accessor (even when the prototype has a setter for the name) and creates
\* a Dynamic entry holding the value on that object only; on an existing
\* Dynamic entry it overwrites the value; afterwards has_property is true
\* and get_property returns the value.
C6_SetPropertyVivifies ==
    [][last'.op \in {"set_property"} =>
      (\A o \in Objects, n \in Names, v \in Values :
         (SetProperty(o, n, v) /\ heap[o].values[n].kind \in {"Absent", "Dynamic"}) =>
            /\ last'.ok
            /\ last'.call = NoCall
            /\ heap'[o].values[n] = new_dynamic_property(v)
            /\ OnlyEntryChanged(o, n)
            /\ has_property(heap'[o], n)
            /\ get_property(heap'[o], n, o) = Ok(v, NoCall))
      ]_vars

\* set_property has just returned without invoking anything; the heap holds
\* exactly a setter on the prototype and a Dynamic entry of the same name on
\* the object that inherits from it.
C6_Witness ==
    /\ last.op = "set_property" /\ last.ok /\ last.call = NoCall
    /\ PropCount(heap) = 2
    /\ \E o \in Objects, n \in Names :
          /\ heap[o].proto # NoObject
          /\ heap[o].proto # o
          /\ Entry(o, n).kind = "Dynamic"
          /\ Entry(heap[o].proto, n).kind = "Virtual"
          /\ Entry(heap[o].proto, n).set # None

\* C7: on a Full accessor every get_property invokes the getter with the
\* object as receiver, every set_property invokes the setter with the object
\* as receiver and the value as argument, and neither changes the entry (nor
\* anything else of the heap).
C7_FullAccessorDispatch ==
    [][last'.op \in {"get_property", "set_property"} =>
      (\A o \in Objects, n \in Names :
         IsFull(heap[o].values[n]) =>
            /\ GetProperty(o, n) =>
                  /\ last'.ok
                  /\ last'.call = Call(heap[o].values[n].get, o, <<>>)
                  /\ heap' = heap
            /\ \A v \in Values :
                  SetProperty(o, n, v) =>
                     /\ last'.ok
                     /\ last'.call = Call(heap[o].values[n].set, o, <<v>>)
                     /\ heap' = heap)
      ]_vars

\* set_property has just invoked the setter of a Full accessor of the
\* receiver, with the value as its argument.
C7_Witness ==
    /\ last.op = "set_property" /\ last.ok
    /\ last.call.this \in Objects
    /\ last.call.args \in {<<v>> : v \in Values}
    /\ \E n \in Names :
          /\ IsFull(Entry(last.call.this, n))
          /\ Entry(last.call.this, n).set = last.call.fn
          /\ Entry(last.call.this, n).get # last.call.fn

\* C8: set_property on a getter-only Virtual and get_property on a
\* setter-only Virtual fail with MissingAccessor, invoke nothing and leave
\* registry, slots and proto of every object as they were.
C8_MissingAccessor ==
    [][last'.op \in {"get_property", "set_property"} =>
      (\A o \in Objects, n \in Names :
         /\ IsGetterOnly(heap[o].values[n]) =>
               \A v \in Values :
                  SetProperty(o, n, v) =>
                     /\ ~last'.ok
                     /\ last'.err = "MissingAccessor"
                     /\ last'.call = NoCall
                     /\ heap' = heap
         /\ (IsSetterOnly(heap[o].values[n]) /\ GetProperty(o, n)) =>
                  /\ ~last'.ok
                  /\ last'.err = "MissingAccessor"
                  /\ last'.call = NoCall
                  /\ heap' = heap)
      ]_vars

\* set_property has just failed with MissingAccessor and the heap's only
\* entry is a getter-only Virtual.
C8_Witness ==
    /\ last.op = "set_property" /\ ~last.ok /\ last.err = "MissingAccessor"
    /\ PropCount(heap) = 1
    /\ \E on \in Pairs : IsGetterOnly(Entry(on[1], on[2]))

\* C9: an in-bounds set_slot succeeds, a following get_slot of that index
\* returns the value and every other slot keeps its value; an out-of-bounds
\* get_slot or set_slot fails with OutOfBounds and changes nothing; no step
\* of any operation changes whether an index of an object is in bounds.
C9_SlotBounds ==
    [][/\ \A o \in Objects, id \in SlotIds :
            /\ \A v \in Values :
                  (last'.op = "set_slot" /\ SetSlot(o, id, v)) =>
                     IF id < Len(heap[o].slots)
                     THEN /\ last'.ok
                          /\ get_slot(heap'[o], id) = Ok(v, NoCall)
                          /\ Len(heap'[o].slots) = Len(heap[o].slots)
                          /\ \A j \in 0..(Len(heap[o].slots) - 1) :
                                j # id => heap'[o].slots[j + 1] = heap[o].slots[j + 1]
                          /\ heap'[o].values = heap[o].values
                          /\ heap'[o].proto = heap[o].proto
                          /\ \A p \in Objects \ {o} : heap'[p] = heap[p]
                     ELSE /\ ~last'.ok
                          /\ last'.err = "OutOfBounds"
                          /\ heap' = heap
            /\ (last'.op = "get_slot" /\ GetSlot(o, id)) =>
                  /\ heap' = heap
                  /\ IF id < Len(heap[o].slots)
                     THEN last'.ok /\ last'.val = heap[o].slots[id + 1]
                     ELSE ~last'.ok /\ last'.err = "OutOfBounds"
            /\ (id < Len(heap'[o].slots)) = (id < Len(heap[o].slots))
      ]_vars

\* set_slot has just succeeded on an object with two slots, which now hold
\* different values.
C9_Witness ==
    /\ last.op = "set_slot" /\ last.ok
    /\ \E o \in Objects :
          /\ Len(heap[o].slots) = 2
          /\ heap[o].slots[1] # heap[o].slots[2]

\* C10: the slot count of every object equals the length it had at
\* allocation, after any sequence of successful or failing operations.
C10_SlotCountFixed ==
    \A o \in Objects : Len(heap[o].slots) = born[o].len

\* set_slot has just failed on an index past the end while an object with
\* slots and an object without slots exist.
C10_Witness ==
    /\ last.op = "set_slot" /\ ~last.ok /\ last.err = "OutOfBounds"
    /\ \E o \in Objects : born[o].len > 0
    /\ \E o \in Objects : born[o].len = 0

\* C11: construct(args) on an object A always succeeds, whatever the
\* arguments, and returns a newly allocated object B that is none of the
\* objects that existed before; proto(B) is A, B has no property of any name
\* (the properties of A are not copied), and the registry, slots and
\* prototype of A and of every other existing object are unchanged.
C11_ConstructAllocates ==
    [][last'.op \in {"construct"} =>
      (\A a \in Objects, args \in ArgLists :
         Construct(a, args) =>
            /\ last'.ok
            /\ last'.ret \notin Objects
            /\ last'.ret \in 1..Len(heap')
            /\ Len(heap') = Len(heap) + 1
            /\ heap'[last'.ret].proto = a
            /\ \A n \in Names : ~has_property(heap'[last'.ret], n)
            /\ \A p \in Objects : heap'[p] = heap[p])
      ]_vars

\* construct has run on an object that has a property; the new object has
\* that object as prototype and none of its properties.
C11_Witness ==
    /\ last.op = "construct" /\ last.ok
    /\ last.ret \in Objects
    /\ heap[last.ret].proto \in Objects
    /\ \E n \in Names : has_property(heap[heap[last.ret].proto], n)
    /\ \A n \in Names : ~has_property(heap[last.ret], n)

\* C12: bare_object() returns a new object whose prototype is None and
\* object(P) a new object whose prototype is P; either way the registry of
\* the new object is empty.
C12_ConstructorsSetProto ==
    [][last'.op \in {"bare_object", "object"} =>
      /\ BareObject =>
            /\ last'.ret = Len(heap) + 1
            /\ heap'[last'.ret].proto = NoObject
            /\ \A n \in Names : ~has_property(heap'[last'.ret], n)
      /\ \A p \in Objects :
            ObjectWithProto(p) =>
               /\ last'.ret = Len(heap) + 1
               /\ heap'[last'.ret].proto = p
               /\ \A n \in Names : ~has_property(heap'[last'.ret], n)
      ]_vars

\* object(P) has run for a P that has a property.
C12_Witness ==
    /\ last.op = "object"
    /\ heap[last.ret].proto \in Objects
    /\ PropCount(heap) >= 1
    /\ \A n \in Names : heap[last.ret].values[n] = Absent

\* The handles that refer to allocation o.
HandlesOf(o) == {h \in Handles : Deref(h) = o}

\* The step changed nothing that a handle of an allocation other than o
\* reads.
OthersUntouched(o) ==
    \A h2 \in Handles \ HandlesOf(o) : heap'[Deref(h2)] = heap[Deref(h2)]

\* C13: handles alias their allocation (a call through h1 is the call on
\* Deref(h1)). When h1 and h2 refer to the same
\* allocation, a mutation made through h1 (set_property, set_slot or an
\* install_* call) is observed by the next read through h2; when they refer
\* to different allocations, a mutation through h1 changes nothing that a
\* read through h2 can observe.
C13_HandlesAlias ==
    [][last'.op \in {"set_property", "set_slot", "install_method",
                     "install_getter", "install_setter",
                     "install_dynamic_property"} =>
      (\A o \in Objects :
         /\ \A n \in Names, v \in Values :
               (last'.op = "install_dynamic_property"
                  /\ InstallDynamicProperty(o, n, v)) =>
                  /\ OthersUntouched(o)
                  /\ \A h1 \in HandlesOf(o), h2 \in HandlesOf(o) :
                        /\ has_property(heap'[Deref(h2)], n)
                        /\ get_property(heap'[Deref(h2)], n, Deref(h2))
                              = Ok(v, NoCall)
         /\ \A n \in Names, f \in FunctionObjects :
               (last'.op = "install_method"
                  /\ InstallMethod(o, n, f)) =>
                  /\ OthersUntouched(o)
                  /\ \A h1 \in HandlesOf(o), h2 \in HandlesOf(o) :
                        /\ has_property(heap'[Deref(h2)], n)
                        /\ get_property(heap'[Deref(h2)], n, Deref(h2))
                              = Ok(f, NoCall)
         /\ \A n \in Names, v \in Values :
               (last'.op = "set_property"
                  /\ SetProperty(o, n, v)) =>
                  /\ OthersUntouched(o)
                  /\ last'.was # "Virtual" =>
                        \A h1 \in HandlesOf(o), h2 \in HandlesOf(o) :
                           /\ has_property(heap'[Deref(h2)], n)
                           /\ get_property(heap'[Deref(h2)], n, Deref(h2))
                                 = Ok(v, NoCall)
         /\ \A n \in Names, g \in Executables :
               (last'.op = "install_getter"
                  /\ InstallGetter(o, n, g)) =>
                  /\ OthersUntouched(o)
                  /\ last'.ok =>
                        \A h1 \in HandlesOf(o), h2 \in HandlesOf(o) :
                           /\ has_property(heap'[Deref(h2)], n)
                           /\ get_property(heap'[Deref(h2)], n, Deref(h2))
                                 = Ok(Deferred, Call(g, Deref(h2), <<>>))
         /\ \A n \in Names, f \in Executables :
               (last'.op = "install_setter"
                  /\ InstallSetter(o, n, f)) =>
                  /\ OthersUntouched(o)
                  /\ last'.ok =>
                        \A h1 \in HandlesOf(o), h2 \in HandlesOf(o), v \in Values :
                           /\ has_property(heap'[Deref(h2)], n)
                           /\ set_property(heap'[Deref(h2)], n, v,
                                           Deref(h2)).res
                                 = Ok(None, Call(f, Deref(h2), <<v>>))
         /\ \A id \in SlotIds, v \in Values :
               (last'.op = "set_slot" /\ SetSlot(o, id, v)) =>
                  /\ OthersUntouched(o)
                  /\ last'.ok =>
                        \A h1 \in HandlesOf(o), h2 \in HandlesOf(o) :
                           get_slot(heap'[Deref(h2)], id) = Ok(v, NoCall))
      ]_vars

\* set_property has created an entry on one of two allocations: the write is
\* there for every handle of that allocation, and the other allocation has no
\* entry.
C13_Witness ==
    /\ last.op = "set_property" /\ last.ok /\ last.was = "Absent"
    /\ Len(heap) = 2
    /\ PropCount(heap) = 1
    /\ \E h1 \in Handles, h2 \in Handles, n \in Names :
          /\ h1 # h2 /\ Deref(h1) = Deref(h2)
          /\ touched = {<<Deref(h1), n>>}
          /\ Entry(Deref(h2), n).kind = "Dynamic"

C15_SetPropertyOverwritesMethod ==
    [][last'.op \in {"set_property"} =>
      (\A o \in Objects, n \in Names, v \in Values :
         (SetProperty(o, n, v) /\ heap[o].values[n].kind = "Method") =>
            /\ last'.ok
            /\ last'.call = NoCall
            /\ heap'[o].values[n] = new_dynamic_property(v)
            /\ get_property(heap'[o], n, o) = Ok(v, NoCall))
      ]_vars

\* set_property has just succeeded on a name that held a Method.
C15_Witness ==
    /\ last.op = "set_property" /\ last.ok /\ last.was = "Method"
    /\ \E on \in touched : Entry(on[1], on[2]).kind = "Dynamic"

\* C16: install_method(o, n, f) never fails and makes the entry for n the
\* Method f whatever was there before (nothing, a Dynamic, another Method or
\* a Virtual); afterwards has_property(o, n) is true and get_property(o, n)
\* returns a value wrapping f without invoking any accessor.
C16_InstallMethodReplaces ==
    [][last'.op \in {"install_method"} =>
      (\A o \in Objects, n \in Names, f \in FunctionObjects :
         InstallMethod(o, n, f) =>
            /\ last'.ok
            /\ heap'[o].values[n] = new_method(f)
            /\ has_property(heap'[o], n)
            /\ get_property(heap'[o], n, o) = Ok(f, NoCall))
      ]_vars

\* install_method has just replaced a Virtual entry that had an accessor.
C16_Witness ==
    /\ last.op = "install_method" /\ last.ok /\ last.was = "Virtual"
    /\ \E on \in touched : Entry(on[1], on[2]).kind = "Method"

\* C17: registry membership is monotone: once has_property(o, n) is true it
\* is true in every later state, because no operation removes a key.
C17_MembershipMonotone ==
    [][\A o \in Objects, n \in Names :
          has_property(heap[o], n) => has_property(heap'[o], n)]_vars

\* An install_getter has just failed on a Dynamic entry, which is still
\* there.
C17_Witness ==
    /\ last.op = "install_getter" /\ ~last.ok /\ last.was = "Dynamic"
    /\ \E on \in touched : Entry(on[1], on[2]).kind = "Dynamic"

\* C18: the prototype link of an object is fixed at allocation: it is what
\* the constructor was given (None for bare_object, P for object(P), A for
\* construct on A) and no step of any operation changes it; proto() returns
\* it and changes no state.
C18_ProtoFixed ==
    [][/\ \A o \in Objects : heap'[o].proto = heap[o].proto
       /\ \A o \in 1..Len(heap') : heap'[o].proto = born'[o].proto
       /\ last'.op \in {"proto"} =>
             \A o \in Objects :
                Proto(o) => heap' = heap /\ last'.ret = heap[o].proto
      ]_vars

\* proto() has just returned the prototype of an object made by construct or
\* object(P), after a property was set on some object.
C18_Witness ==
    /\ last.op = "proto" /\ last.ret \in Objects
    /\ touched # {}

\* C19: every object allocated by the core has zero slots, so get_slot and
\* set_slot fail with OutOfBounds for every index on every object in every
\* reachable state, and set_slot never succeeds.
C19_NoSlots ==
    /\ \A o \in Objects :
          /\ Len(heap[o].slots) = 0
          /\ \A id \in SlotIds :
                /\ get_slot(heap[o], id) = Err("OutOfBounds")
                /\ \A v \in Values :
                      set_slot(heap[o], id, v)
                         = [data |-> heap[o], res |-> Err("OutOfBounds")]
    /\ last.op \in {"get_slot", "set_slot"} =>
          ~last.ok /\ last.err = "OutOfBounds"

\* get_slot has just failed on one of two allocated objects, after a
\* property was installed.
C19_Witness ==
    /\ last.op = "get_slot" /\ ~last.ok /\ last.err = "OutOfBounds"
    /\ Len(heap) = 2
    /\ PropCount(heap) >= 1

\* C20: frame. set_property, install_method, install_getter, install_setter
\* and install_dynamic_property on (o, n) leave every other name of o, the
\* slots and prototype of o and every other object unchanged; get_property on
\* an absent, Dynamic or Method entry, has_property, get_slot and proto change
\* no state; install_getter and install_setter insert a fresh Virtual only
\* when n is absent and never insert over an existing entry: an existing
\* Virtual keeps its other half, any other existing entry is left as it was.
C20_Frame ==
    [][/\ last'.op \in {"set_property", "install_method", "install_getter",
                        "install_setter", "install_dynamic_property"} =>
          \A o \in Objects, n \in Names :
             /\ \A v \in Values :
                   (SetProperty(o, n, v) \/ InstallDynamicProperty(o, n, v))
                      => OnlyEntryChanged(o, n)
             /\ \A f \in FunctionObjects :
                   InstallMethod(o, n, f) => OnlyEntryChanged(o, n)
             /\ \A f \in Executables :
                   /\ InstallGetter(o, n, f) =>
                         /\ OnlyEntryChanged(o, n)
                         /\ IF heap[o].values[n].kind = "Absent"
                            THEN heap'[o].values[n] = Virtual(f, None)
                            ELSE IF heap[o].values[n].kind = "Virtual"
                            THEN heap'[o].values[n]
                                    = Virtual(f, heap[o].values[n].set)
                            ELSE heap'[o].values[n] = heap[o].values[n]
                   /\ InstallSetter(o, n, f) =>
                         /\ OnlyEntryChanged(o, n)
                         /\ IF heap[o].values[n].kind = "Absent"
                            THEN heap'[o].values[n] = Virtual(None, f)
                            ELSE IF heap[o].values[n].kind = "Virtual"
                            THEN heap'[o].values[n]
                                    = Virtual(heap[o].values[n].get, f)
                            ELSE heap'[o].values[n] = heap[o].values[n]
       /\ last'.op \in {"has_property", "get_slot", "proto"} => heap' = heap
       /\ last'.op \in {"get_property"} =>
             \A o \in Objects, n \in Names :
                (GetProperty(o, n) /\ heap[o].values[n].kind # "Virtual")
                   => heap' = heap
      ]_vars

\* install_setter has just completed a Virtual entry on an object whose
\* other name holds an entry of its own.
C20_Witness ==
    /\ last.op = "install_setter" /\ last.ok /\ last.was = "Virtual"
    /\ \E o \in Objects :
          /\ \A n \in Names : has_property(heap[o], n)
          /\ \E n \in Names : IsFull(Entry(o, n))

====
